---- MODULE Spec2Model ----
(***************************************************************************)
(* DolDoc.py: the container reader (DolDoc.load), the element stream       *)
(* decoder (DolDocEntry.fromStream) and the per-type decoders, as a state  *)
(* machine over the bytes of one input file.                               *)
(*                                                                         *)
(* Bytes are naturals 0..255; a bytes object is a sequence of them.  A     *)
(* cursor is the 0-based offset of the next byte, as BytesIO.tell().       *)
(* The f64 "angle" of Ellipse and Polygon is kept as its 8 raw bytes.      *)
(***************************************************************************)
EXTENDS Integers, Sequences, FiniteSets, TLC

\* ------------------------------------------------------------ bounds
\* most complete elements in front of the last record of a payload
MaxElems == 2
\* most chunks of a container-level input
MaxChunks == 2

\* ------------------------------------------------------------ bytes
Min(a, b) == IF a < b THEN a ELSE b

\* stream.read(n) at cursor p: at most n bytes, all the rest when n < 0
Read(s, p, n) ==
    IF n < 0 THEN SubSeq(s, p + 1, Len(s))
    ELSE SubSeq(s, p + 1, Min(p + n, Len(s)))

\* struct "<i": little-endian signed 32-bit
I32(b) ==
    b[1] + 256 * b[2] + 65536 * b[3]
    + 16777216 * (IF b[4] >= 128 THEN b[4] - 256 ELSE b[4])

\* struct "<I": little-endian unsigned 32-bit
U32(b) == b[1] + 256 * b[2] + 65536 * b[3] + 16777216 * b[4]

\* struct.unpack of n consecutive "<i" fields
UnpackInts(b, n) == [k \in 1..n |-> I32(SubSeq(b, 4 * k - 3, 4 * k))]

\* ------------------------------------------------------------ tables
\* DolDocMapping: opcode e is entry e + 1; <<display name, decoder kind>>
DolDocMapping == <<
    <<"End", "End">>,
    <<"Color", "Color">>,
    <<"Dither Color", "DitherColor">>,
    <<"Thick", "Thick">>,
    <<"Planar Symmetry", "PlanarSymmetry">>,
    <<"Transform On", "Transform">>,
    <<"Transform Off", "Transform">>,
    <<"Shift", "Shift">>,
    <<"Point", "Pt">>,
    <<"PolyPoint", "PolyPt">>,
    <<"Line", "Line">>,
    <<"PolyLine", "PolyLine">>,
    <<"Rect", "Rect">>,
    <<"Rotated Rect", "Rect">>,
    <<"Circle", "Circle">>,
    <<"Ellipse", "Ellipse">>,
    <<"Polygon", "Polygon">>,
    <<"BSpline2", "BSpline2">>,
    <<"BSpline2 Closed", "BSpline2">>,
    <<"BSpline3", "BSpline3">>,
    <<"BSpline3 Closed", "BSpline3">>,
    <<"Flood Fill", "FloodFill">>,
    <<"Flood Fill Not Color", "FloodFill">>,
    <<"BitMap", "BitMap">>,
    <<"Mesh", "Mesh">>,
    <<"Shiftable Mesh", "Mesh">>,
    <<"Arrow", "Arrow">>,
    <<"Text", "Text">>,
    <<"Text Box", "TextBox">>,
    <<"Text Diamond", "TextDiamond">> >>

\* the registry with the commented-out Shift line restored
DolDocTypesWithShift ==
    [k \in {"End", "Color", "DitherColor", "Thick", "PlanarSymmetry",
            "Transform", "Shift", "Pt", "PolyPt", "Line", "PolyLine", "Rect",
            "Circle", "Ellipse", "Polygon", "BSpline2", "BSpline3",
            "FloodFill", "BitMap", "Mesh", "Arrow", "Text", "TextBox",
            "TextDiamond"} |->
        CASE k = "End" -> "DolDocElementEnd"
          [] k = "Color" -> "DolDocElementColor"
          [] k = "DitherColor" -> "DolDocElementDitherColor"
          [] k = "Thick" -> "DolDocElementThick"
          [] k = "PlanarSymmetry" -> "DolDocElementPlanarSymmetry"
          [] k = "Transform" -> "DolDocElementTransform"
          [] k = "Shift" -> "DolDocElementShift"
          [] k = "Pt" -> "DolDocElementPoint"
          [] k = "PolyPt" -> "DolDocElementPolyPt"
          [] k = "Line" -> "DolDocElementLine"
          [] k = "PolyLine" -> "DolDocElementPolyLine"
          [] k = "Rect" -> "DolDocElementRect"
          [] k = "Circle" -> "DolDocElementCircle"
          [] k = "Ellipse" -> "DolDocElementEllipse"
          [] k = "Polygon" -> "DolDocElementPolygon"
          [] k \in {"BSpline2", "BSpline3"} -> "DolDocElementBSpline"
          [] k = "FloodFill" -> "DolDocElementFloodFill"
          [] k = "BitMap" -> "DolDocElementBitMap"
          [] k = "Mesh" -> "DolDocElementMesh"
          [] k = "Arrow" -> "DolDocElementArrow"
          [] OTHER -> "DolDocElementText"]

\* DolDocTypes: decoder kind -> element class ("Shift" is not registered)
DolDocTypes ==
    [k \in {"End", "Color", "DitherColor", "Thick", "PlanarSymmetry",
            "Transform", "Pt", "PolyPt", "Line", "PolyLine", "Rect",
            "Circle", "Ellipse", "Polygon", "BSpline2", "BSpline3",
            "FloodFill", "BitMap", "Mesh", "Arrow", "Text", "TextBox",
            "TextDiamond"} |->
        CASE k = "End" -> "DolDocElementEnd"
          [] k = "Color" -> "DolDocElementColor"
          [] k = "DitherColor" -> "DolDocElementDitherColor"
          [] k = "Thick" -> "DolDocElementThick"
          [] k = "PlanarSymmetry" -> "DolDocElementPlanarSymmetry"
          [] k = "Transform" -> "DolDocElementTransform"
          [] k = "Pt" -> "DolDocElementPoint"
          [] k = "PolyPt" -> "DolDocElementPolyPt"
          [] k = "Line" -> "DolDocElementLine"
          [] k = "PolyLine" -> "DolDocElementPolyLine"
          [] k = "Rect" -> "DolDocElementRect"
          [] k = "Circle" -> "DolDocElementCircle"
          [] k = "Ellipse" -> "DolDocElementEllipse"
          [] k = "Polygon" -> "DolDocElementPolygon"
          [] k \in {"BSpline2", "BSpline3"} -> "DolDocElementBSpline"
          [] k = "FloodFill" -> "DolDocElementFloodFill"
          [] k = "BitMap" -> "DolDocElementBitMap"
          [] k = "Mesh" -> "DolDocElementMesh"
          [] k = "Arrow" -> "DolDocElementArrow"
          [] OTHER -> "DolDocElementText"]

\* DolDocElementColor.colors / DolDocElementDitherColor.colors
colors == <<"BLACK", "BLUE", "GREEN", "CYAN", "RED", "PURPLE", "BROWN",
            "LTGRAY", "DKGRAY", "LTBLUE", "LTGREEN", "LTCYAN", "LTRED",
            "LTPURPLE", "YELLOW", "WHITE">>

\* the field counts with Circle's struct written as Point's ("<ii")
IntFieldsCircleAsPoint(class) ==
    CASE class = "DolDocElementThick" -> 1
      [] class \in {"DolDocElementFloodFill", "DolDocElementPoint",
                    "DolDocElementShift", "DolDocElementCircle"} -> 2
      [] OTHER -> 4

\* number of "<i" fields of the classes decoded by one struct of ints only
IntFields(class) ==
    CASE class = "DolDocElementThick" -> 1
      [] class \in {"DolDocElementFloodFill", "DolDocElementPoint",
                    "DolDocElementShift"} -> 2
      [] class = "DolDocElementCircle" -> 3
      [] OTHER -> 4   \* Line, Arrow, PlanarSymmetry, Rect

StructClasses ==
    {"DolDocElementThick", "DolDocElementFloodFill", "DolDocElementPoint",
     "DolDocElementShift", "DolDocElementCircle", "DolDocElementLine",
     "DolDocElementArrow", "DolDocElementPlanarSymmetry", "DolDocElementRect"}

\* ------------------------------------------------------------ elements
NoErr == [type |-> "none", msg |-> "", args |-> <<>>]

\* cls(name, id): a fresh element, before its fromStream fills it in
NewElement(class, name, id) ==
    [class |-> class, name |-> name, id |-> id,
     vals |-> <<>>, items |-> <<>>, items2 |-> <<>>, bytes |-> <<>>]

NoElement == NewElement("", "", -1)

\* a decoder's outcome: the element and the cursor behind it, or the exception
Ok(elm, p) == [err |-> NoErr, elm |-> elm, pos |-> p]
Fail(type, msg, args, p) ==
    [err |-> [type |-> type, msg |-> msg, args |-> args],
     elm |-> NoElement, pos |-> p]

\* Struct.unpack(stream.read(size)) on a short read
StructError(size, p) ==
    Fail("struct.error", "unpack requires a buffer of {} bytes", <<size>>, p)

\* DolDocElement.fromStream (End) and DolDocElementTransform.fromStream
PlainFromStream(class, name, id, data, p) == Ok(NewElement(class, name, id), p)

\* DolDocElementColor.fromStream: self.color, = stream.read(1)
ColorFromStream(class, name, id, data, p) ==
    LET raw == Read(data, p, 1) IN
    IF Len(raw) # 1
    THEN Fail("ValueError", "not enough values to unpack", <<1, Len(raw)>>,
              p + Len(raw))
    ELSE Ok([NewElement(class, name, id) EXCEPT !.vals = raw], p + 1)

\* DolDocElementDitherColor.fromStream: self.color1, self.color2 = stream.read(2)
DitherColorFromStream(class, name, id, data, p) ==
    LET raw == Read(data, p, 2) IN
    IF Len(raw) # 2
    THEN Fail("ValueError", "not enough values to unpack", <<2, Len(raw)>>,
              p + Len(raw))
    ELSE Ok([NewElement(class, name, id) EXCEPT !.vals = raw], p + 2)

\* Thick, FloodFill, Point, Shift, Circle, Line, Arrow, PlanarSymmetry, Rect
StructFromStream(class, name, id, data, p) ==
    LET n == IntFields(class)
        raw == Read(data, p, 4 * n)
    IN  IF Len(raw) # 4 * n
        THEN StructError(4 * n, p + Len(raw))
        ELSE Ok([NewElement(class, name, id) EXCEPT !.vals = UnpackInts(raw, n)],
                p + 4 * n)

\* DolDocElementEllipse.fromStream: "<iiiid", 24 bytes
EllipseFromStream(class, name, id, data, p) ==
    LET raw == Read(data, p, 24) IN
    IF Len(raw) # 24
    THEN StructError(24, p + Len(raw))
    ELSE Ok([NewElement(class, name, id) EXCEPT
                !.vals = UnpackInts(raw, 4), !.bytes = SubSeq(raw, 17, 24)],
            p + 24)

\* DolDocElementPolygon.fromStream: "<iiiidi", 28 bytes
PolygonFromStream(class, name, id, data, p) ==
    LET raw == Read(data, p, 28) IN
    IF Len(raw) # 28
    THEN StructError(28, p + Len(raw))
    ELSE Ok([NewElement(class, name, id) EXCEPT
                !.vals = UnpackInts(raw, 4) \o <<I32(SubSeq(raw, 25, 28))>>,
                !.bytes = SubSeq(raw, 17, 24)],
            p + 28)

\* [None] * count: whether a list of count slots can be had depends on the
\* memory the machine has left at that moment, so every such allocation is
\* either granted or refused (MemoryError).  A count of zero or less gives
\* the empty list.
AllocFails(count, granted) == count > 0 /\ ~granted

\* what the machine may answer to the (at most two) allocations of one record
Grants == BOOLEAN \X BOOLEAN

\* for i in range(count): items[i] = Struct(n ints).unpack(stream.read(4 n))
RECURSIVE ReadLoop(_, _, _, _, _)
ReadLoop(data, p, count, n, acc) ==
    IF count <= 0 THEN [ok |-> TRUE, items |-> acc, pos |-> p]
    ELSE LET raw == Read(data, p, 4 * n) IN
         IF Len(raw) # 4 * n
         THEN [ok |-> FALSE, items |-> acc, pos |-> p + Len(raw)]
         ELSE ReadLoop(data, p + 4 * n, count - 1, n,
                       Append(acc, UnpackInts(raw, n)))

\* items = [None] * count, then the loop over range(count): the exception
\* ("none" without one), the items read and the cursor
ReadStructs(data, p, count, n, granted) ==
    IF AllocFails(count, granted)
    THEN [err |-> "MemoryError", items |-> <<>>, pos |-> p]
    ELSE LET r == ReadLoop(data, p, count, n, <<>>) IN
         [err |-> IF r.ok THEN "none" ELSE "struct.error",
          items |-> r.items, pos |-> r.pos]

\* the exception a list read ended with
ListError(r, size) ==
    IF r.err = "MemoryError" THEN Fail("MemoryError", "", <<>>, r.pos)
    ELSE StructError(size, r.pos)

\* DolDocElementPolyLine.fromStream (n = 2), DolDocElementBSpline.fromStream (n = 3)
CountedFromStream(class, name, id, data, p, grant) ==
    LET n == IF class = "DolDocElementPolyLine" THEN 2 ELSE 3
        raw == Read(data, p, 4)
    IN  IF Len(raw) # 4 THEN StructError(4, p + Len(raw))
        ELSE LET r == ReadStructs(data, p + 4, I32(raw), n, grant[1]) IN
             IF r.err # "none" THEN ListError(r, 4 * n)
             ELSE Ok([NewElement(class, name, id) EXCEPT !.items = r.items],
                     r.pos)

\* DolDocElementMesh.fromStream
MeshFromStream(class, name, id, data, p, grant) ==
    LET raw == Read(data, p, 8) IN
    IF Len(raw) # 8 THEN StructError(8, p + Len(raw))
    ELSE LET cnt == UnpackInts(raw, 2)
             v == ReadStructs(data, p + 8, cnt[1], 3, grant[1])
         IN  IF v.err # "none" THEN ListError(v, 12)
             ELSE LET t == ReadStructs(data, v.pos, cnt[2], 4, grant[2]) IN
                  IF t.err # "none" THEN ListError(t, 16)
                  ELSE Ok([NewElement(class, name, id) EXCEPT
                              !.items = v.items, !.items2 = t.items],
                          t.pos)

\* the n of stream.read(a * b): Python's product is unbounded, and read only
\* tells a negative n from the others and stops at the cap bytes that are
\* left, so the product is taken up to cap
ReadLen(a, b, cap) ==
    IF a = 0 \/ b = 0 THEN 0
    ELSE IF (a < 0) # (b < 0) THEN -1
    ELSE LET x == IF a < 0 THEN -a ELSE a
             y == IF b < 0 THEN -b ELSE b
         IN  IF x > cap \/ y > cap THEN cap ELSE Min(x * y, cap)

\* DolDocElementPolyPt.fromStream: x, y, count, then stream.read(count*3) dropped
PolyPtFromStream(class, name, id, data, p) ==
    LET raw == Read(data, p, 12) IN
    IF Len(raw) # 12 THEN StructError(12, p + Len(raw))
    ELSE LET h == UnpackInts(raw, 3)
             skipped == Read(data, p + 12, ReadLen(h[3], 3, Len(data)))
         IN  Ok([NewElement(class, name, id) EXCEPT !.vals = <<h[1], h[2]>>],
                p + 12 + Len(skipped))

\* DolDocElementBitMap.fromStream: x, y, width, height, then width*height bytes
BitMapFromStream(class, name, id, data, p) ==
    LET raw == Read(data, p, 16) IN
    IF Len(raw) # 16 THEN StructError(16, p + Len(raw))
    ELSE LET h == UnpackInts(raw, 4)
             px == Read(data, p + 16, ReadLen(h[3], h[4], Len(data)))
         IN  Ok([NewElement(class, name, id) EXCEPT !.vals = h, !.bytes = px],
                p + 16 + Len(px))

\* DolDocElementText.fromStream up to its while loop: x, y and text = b""
TextHeaderFromStream(class, name, id, data, p) ==
    LET raw == Read(data, p, 8) IN
    IF Len(raw) # 8 THEN StructError(8, p + Len(raw))
    ELSE Ok([NewElement(class, name, id) EXCEPT !.vals = UnpackInts(raw, 2)],
            p + 8)

\* DolDocTypes[cls].fromStream(name, etype, stream), by the class registered
FromStream(class, name, id, data, p, grant) ==
    CASE class \in {"DolDocElementEnd", "DolDocElementTransform"} ->
            PlainFromStream(class, name, id, data, p)
      [] class = "DolDocElementColor" -> ColorFromStream(class, name, id, data, p)
      [] class = "DolDocElementDitherColor" ->
            DitherColorFromStream(class, name, id, data, p)
      [] class \in StructClasses -> StructFromStream(class, name, id, data, p)
      [] class = "DolDocElementEllipse" -> EllipseFromStream(class, name, id, data, p)
      [] class = "DolDocElementPolygon" -> PolygonFromStream(class, name, id, data, p)
      [] class \in {"DolDocElementPolyLine", "DolDocElementBSpline"} ->
            CountedFromStream(class, name, id, data, p, grant)
      [] class = "DolDocElementMesh" -> MeshFromStream(class, name, id, data, p, grant)
      [] class = "DolDocElementPolyPt" -> PolyPtFromStream(class, name, id, data, p)
      [] class = "DolDocElementBitMap" -> BitMapFromStream(class, name, id, data, p)
      [] OTHER -> TextHeaderFromStream(class, name, id, data, p)

\* print(elm): __str__ of Color and DitherColor indexes the 16-entry palette
PrintRaises(elm) ==
    /\ elm.class \in {"DolDocElementColor", "DolDocElementDitherColor"}
    /\ \E k \in 1..Len(elm.vals) : elm.vals[k] >= Len(colors)

\* the loop's exit test after the append, with __str__ ("END") compared instead
IsEndByStr(elm) == elm.name = "END"

\* if elm.name == "End": break
IsEnd(elm) == elm.name = "End"

\* ------------------------------------------------------------ inputs
\* The input files are built from element encodings, so that every record
\* kind, every truncation and every framing case occurs among them.

\* struct.pack("<i", v)
Le(v) == <<v % 256, (v \div 256) % 256, (v \div 65536) % 256,
           (v \div 16777216) % 256>>

RECURSIVE Ints(_)
Ints(s) == IF s = <<>> THEN <<>> ELSE Le(s[1]) \o Ints(Tail(s))

\* struct.pack("<d", 1.0)
F64One == <<0, 0, 0, 0, 0, 0, 240, 63>>

E(op, body) == [op |-> op, body |-> body]

\* one complete record of every opcode of the table but End
WellFormedElems ==
    { E(1, <<4>>), E(2, <<1, 15>>), E(3, Ints(<<2>>)),
      E(4, Ints(<<0, 0, 1, 1>>)), E(5, <<>>), E(6, <<>>),
      E(7, Ints(<<1, 2>>)),
      E(8, Ints(<<1, 2>>)), E(9, Ints(<<1, 2, 1>>) \o <<9, 9, 9>>),
      E(10, Ints(<<1, 2, 3, 4>>)), E(11, Ints(<<1, 3, -4>>)),
      E(11, Ints(<<0>>)), E(12, Ints(<<1, 2, 3, 4>>)),
      E(13, Ints(<<1, 2, 3, 4>>)), E(14, Ints(<<5, 6, 300>>)),
      E(15, Ints(<<1, 2, 3, 4>>) \o F64One),
      E(16, Ints(<<1, 2, 3, 4>>) \o F64One \o Ints(<<5>>)),
      E(17, Ints(<<1, 1, 2, 3>>)), E(18, Ints(<<0>>)),
      E(19, Ints(<<1, 1, 2, 3>>)), E(20, Ints(<<1, 1, 2, 3>>)),
      E(21, Ints(<<7, 8>>)), E(22, Ints(<<7, 8>>)),
      E(23, Ints(<<0, 0, 2, 1>>) \o <<18, 0>>),
      E(24, Ints(<<1, 1, 1, 2, 3, 15, 0, 0, 0>>)),
      E(25, Ints(<<0, 0>>)), E(26, Ints(<<1, 2, 3, 4>>)),
      E(27, Ints(<<0, 0>>) \o <<72, 105, 0>>), E(27, Ints(<<0, 0>>) \o <<0>>),
      E(28, Ints(<<1, 2>>) \o <<72, 0>>), E(29, Ints(<<1, 2>>) \o <<72, 0>>) }

\* the records that may precede the last one
SmallElems ==
    { E(1, <<4>>), E(6, <<>>), E(11, Ints(<<1, 3, -4>>)),
      E(27, Ints(<<0, 0>>) \o <<72, 105, 0>>) }

Encode(e) == <<e.op>> \o e.body

RECURSIVE EncodeAll(_)
EncodeAll(es) == IF es = <<>> THEN <<>> ELSE Encode(es[1]) \o EncodeAll(Tail(es))

SeqsUpTo(S, n) == UNION { [1..k -> S] : k \in 0..n }

\* a record cut short: its opcode and the first k bytes of its body
Truncated ==
    UNION { { <<e.op>> \o SubSeq(e.body, 1, k) :
                k \in { j \in {0, 2, 7, Len(e.body) - 1} : j < Len(e.body) } } :
            e \in WellFormedElems }

\* what else may end a payload: nothing, End, End and more bytes, opcodes
\* outside the table or unregistered, palette indexes past the palette,
\* negative counts and sizes
Rests ==
    { <<>>, <<0>>, <<0, 1>>, <<0, 0>>, <<0, 30>>,
      <<7>> \o Ints(<<1, 2>>) \o <<0>>, <<7>>,
      <<30>>, <<30, 0>>, <<31>>, <<31, 0>>, <<255>>,
      <<1, 16, 0>>, <<2, 1, 16, 0>>, <<2, 16, 1, 0>>,
      <<23>> \o Ints(<<0, 0, -1, 1>>) \o <<0>>,
      <<9>> \o Ints(<<0, 0, -1>>) \o <<0>>,
      <<24>> \o Ints(<<-1, 0>>) \o <<0>>,
      <<11>> \o Ints(<<2, 1, 1>>) \o <<0>>,
      <<11>> \o Ints(<<2147483647, 0, 0>>) \o <<0>>,
      <<17>> \o Ints(<<16777217, 0, 0, 0>>) \o <<0>>,
      <<24>> \o Ints(<<2147483647, 0, 0, 0, 0>>) \o <<0>>,
      <<24>> \o Ints(<<0, 2147483647, 0, 0, 0, 0>>) \o <<0>>,
      <<24>> \o Ints(<<1, 2147483647, 1, 2, 3>>) \o <<0>>,
      <<24>> \o Ints(<<1, 2, 1, 2, 3, 15, 0, 0, 0>>) \o <<0>>,
      <<23>> \o Ints(<<0, 0, 2147483647, 2147483647>>) \o <<1, 0>>,
      <<23>> \o Ints(<<0, 0, -2, -1>>) \o <<1, 0>>,
      <<9>> \o Ints(<<0, 0, 2147483647>>) \o <<1, 0>> } \cup Truncated

\* sDolDocEntry.size
sDolDocEntrySize == 16

\* a chunk of an input: complete records, the bytes after them, and the header
Chunk(elems, rest, size) ==
    [elems |-> elems, rest |-> rest, size |-> size]

Payload(c) == EncodeAll(c.elems) \o c.rest

\* struct.pack("<IIII", chunkId, flags, size, refCount) and the payload
ChunkBytes(c, k) == Ints(<<k, 2, c.size, 3>>) \o Payload(c)

ExactChunk(elems, rest) ==
    Chunk(elems, rest, Len(EncodeAll(elems)) + Len(rest))

\* the payload is the encodings of elems and one End, and size is its length
WellFormed(c) == c.rest = <<0>> /\ c.size = Len(Payload(c))

\* decoder-level inputs: one chunk of the declared size
DecoderChunks ==
    { ExactChunk(p, r) : p \in SeqsUpTo(SmallElems, MaxElems), r \in Rests } \cup
    { ExactChunk(p \o <<e>>, <<0>>) :
        p \in SeqsUpTo(SmallElems, MaxElems), e \in WellFormedElems }

\* container-level chunks: also a declared size that is not the payload's
SmallChunks ==
    { ExactChunk(<<>>, <<0>>), ExactChunk(<<E(1, <<4>>)>>, <<0>>),
      ExactChunk(<<E(27, Ints(<<0, 0>>) \o <<72, 105, 0>>)>>, <<0>>),
      ExactChunk(<<>>, <<0, 1, 1>>), ExactChunk(<<>>, <<7, 0>>),
      Chunk(<<E(1, <<4>>)>>, <<0>>, 2), Chunk(<<>>, <<0, 1>>, 1),
      Chunk(<<E(1, <<4>>)>>, <<0>>, 20) }

Preambles == { <<72, 105>>, <<0>>, <<72, 105, 0>> }

\* bytes after the last chunk: none, fewer than a header, a whole header
Trails ==
    { <<>>, <<1>>, [k \in 1..(sDolDocEntrySize - 1) |-> 0],
      [k \in 1..sDolDocEntrySize |-> 0] }

Recipe(pre, cs, trail) == [pre |-> pre, chunks |-> cs, trail |-> trail]

\* a declared size far beyond the file
LargeChunks == { Chunk(<<E(5, <<>>)>>, <<0>>, 1073741824) }

Recipes ==
    { Recipe(<<0>>, <<c>>, <<>>) : c \in DecoderChunks \cup LargeChunks } \cup
    { Recipe(pre, cs, t) :
        pre \in Preambles, cs \in SeqsUpTo(SmallChunks, MaxChunks), t \in Trails }

RECURSIVE ChunksBytes(_, _)
ChunksBytes(cs, k) ==
    IF cs = <<>> THEN <<>> ELSE ChunkBytes(cs[1], k) \o ChunksBytes(Tail(cs), k + 1)

\* the bytes of the file
Build(r) == r.pre \o ChunksBytes(r.chunks, 1) \o r.trail

\* ------------------------------------------------------------ state
VARIABLES
    input,      \* how the file was built (never read by the program)
    handle,     \* the bytes of the file
    hpos,       \* handle's cursor
    pc,         \* "preamble", "header", "decode", "text", "done", "error"
    buffer,     \* load's buffer
    text,       \* Document.text
    chunks,     \* Document.chunks
    hdr,        \* chunkId, flags, size, refCount of the chunk being decoded
    data,       \* the payload handed to DolDocEntry.fromBytes
    pos,        \* the payload stream's cursor
    estart,     \* the cursor where the last opcode read was attempted
    etype,      \* fromStream's etype, -1 before the first opcode
    elements,   \* DolDocEntry.elements
    cur,        \* the Text element whose while loop is running
    err,        \* the exception that ended load
    ret         \* <<>> until load returns, then <<Document>>

vars == <<input, handle, hpos, pc, buffer, text, chunks, hdr, data, pos,
          estart, etype, elements, cur, err, ret>>

NoHdr == [chunkId |-> 0, flags |-> 0, size |-> 0, refCount |-> 0]

Init ==
    /\ input \in Recipes
    /\ handle = Build(input)
    /\ hpos = 0
    /\ pc = "preamble"
    /\ buffer = <<>>
    /\ text = <<>>
    /\ chunks = <<>>
    /\ hdr = NoHdr
    /\ data = <<>>
    /\ pos = 0
    /\ estart = 0
    /\ etype = -1
    /\ elements = <<>>
    /\ cur = NoElement
    /\ err = NoErr
    /\ ret = <<>>

\* an exception caught per chunk: the chunk is dropped and the loop goes on
RaiseAndContinue(e) ==
    /\ pc' = "header"
    /\ err' = e
    /\ UNCHANGED <<chunks, ret>>

\* an exception leaves fromStream and load: nothing is appended or returned
Raise(e) ==
    /\ pc' = "error"
    /\ err' = e
    /\ UNCHANGED <<chunks, ret>>

\* the payload read as the whole rest of the file
ReadPayloadToEof(h, p, size) == Read(h, p, -1)

\* data = handle.read(size); DolDocEntry.fromBytes(data): io.BytesIO(data)
ReadPayload(h, p, size) == Read(h, p, size)

\* handle.read(size) on a file: the file object asks for size bytes of memory
\* before it reads, and whether it gets them depends on the memory the machine
\* has left (MemoryError); read(0) asks for none
PayloadRefused(size, granted) == size > 0 /\ ~granted

\* the Text loop with the test after the append
TextAccumulateThenTest(t, v) == [brk |-> v = <<0>>, text |-> t \o v]

\* one pass of DolDocElementText's loop: if v == b"\0": break; self.text += v
TextAccumulate(t, v) ==
    IF v = <<0>> THEN [brk |-> TRUE, text |-> t]
    ELSE [brk |-> FALSE, text |-> t \o v]

\* load's first loop: one byte of the preamble
ReadPreambleByte ==
    /\ pc = "preamble"
    /\ LET c == Read(handle, hpos, 1) IN
        /\ hpos' = hpos + Len(c)
        /\ IF c = <<>> \/ c = <<0>>
           THEN /\ text' = buffer
                /\ pc' = "header"
                /\ buffer' = buffer
           ELSE /\ buffer' = buffer \o c
                /\ UNCHANGED <<text, pc>>
    /\ UNCHANGED <<input, handle, chunks, hdr, data, pos, estart, etype,
                   elements, cur, err, ret>>

\* load's second loop up to the call of fromBytes: header and payload
ReadChunkHeader ==
    /\ pc = "header"
    /\ LET d == Read(handle, hpos, sDolDocEntrySize) IN
        IF d = <<>>
        THEN /\ pc' = "done"
             /\ ret' = << [text |-> text, chunks |-> chunks] >>
             /\ UNCHANGED <<hpos, chunks, hdr, data, pos, elements, err>>
        ELSE IF Len(d) # sDolDocEntrySize
        THEN /\ Raise(StructError(sDolDocEntrySize, 0).err)
             /\ hpos' = hpos + Len(d)
             /\ UNCHANGED <<hdr, data, pos, elements>>
        ELSE LET h == [chunkId |-> U32(SubSeq(d, 1, 4)),
                       flags |-> U32(SubSeq(d, 5, 8)),
                       size |-> U32(SubSeq(d, 9, 12)),
                       refCount |-> U32(SubSeq(d, 13, 16))]
                 payload == ReadPayload(handle, hpos + sDolDocEntrySize, h.size)
             IN  \E granted \in BOOLEAN :
                 IF PayloadRefused(h.size, granted)
                 THEN /\ Raise([type |-> "MemoryError", msg |-> "",
                                args |-> <<>>])
                      /\ hdr' = h
                      /\ hpos' = hpos + sDolDocEntrySize
                      /\ data' = <<>>
                      /\ pos' = 0
                      /\ elements' = <<>>
                 ELSE /\ hdr' = h
                      /\ data' = payload
                      /\ hpos' = hpos + sDolDocEntrySize + Len(payload)
                      /\ pos' = 0
                      /\ elements' = <<>>
                      /\ pc' = "decode"
                      /\ UNCHANGED <<chunks, err, ret>>
    /\ UNCHANGED <<input, handle, buffer, text, estart, etype, cur>>

\* print(elm); self.elements.append(elm); break on End, and then load's append
Collect(elm) ==
    IF PrintRaises(elm)
    THEN /\ Raise([type |-> "IndexError", msg |-> "list index out of range",
                   args |-> <<>>])
         /\ UNCHANGED elements
    ELSE /\ elements' = Append(elements, elm)
         /\ err' = err
         /\ ret' = ret
         /\ IF IsEnd(elm)
            THEN /\ chunks' = Append(chunks,
                        [chunkId |-> hdr.chunkId, flags |-> hdr.flags,
                         size |-> hdr.size, refCount |-> hdr.refCount,
                         elements |-> Append(elements, elm)])
                 /\ pc' = "header"
            ELSE /\ chunks' = chunks
                 /\ pc' = "decode"

\* one pass of fromStream's loop; for a Text kind, up to the element's own
\* loop.  The machine may refuse any list the pass asks for.
DecodeElement ==
    /\ pc = "decode"
    /\ estart' = pos
    /\ IF pos >= Len(data)
       THEN /\ Raise([type |-> "DolDocError",
                      msg |-> "EOF reached before End marker!", args |-> <<>>])
            /\ UNCHANGED <<pos, etype, elements, cur>>
       ELSE LET op == data[pos + 1]
                tell == pos + 1
            IN  /\ etype' = op
                /\ IF op > Len(DolDocMapping)
                   THEN /\ Raise([type |-> "DolDocError",
                                  msg |-> "Don't know what type {} at {} is!",
                                  args |-> <<op, tell>>])
                        /\ pos' = tell
                        /\ UNCHANGED <<elements, cur>>
                   ELSE IF op + 1 \notin DOMAIN DolDocMapping
                   THEN /\ Raise([type |-> "IndexError",
                                  msg |-> "list index out of range",
                                  args |-> <<>>])
                        /\ pos' = tell
                        /\ UNCHANGED <<elements, cur>>
                   ELSE LET name == DolDocMapping[op + 1][1]
                            cls == DolDocMapping[op + 1][2]
                        IN  IF cls \notin DOMAIN DolDocTypes
                            THEN /\ Raise([type |-> "DolDocError",
                                       msg |-> "Don't know how to decode {} at {}!",
                                       args |-> <<cls, tell>>])
                                 /\ pos' = tell
                                 /\ UNCHANGED <<elements, cur>>
                            ELSE \E grant \in Grants :
                                 LET r == FromStream(DolDocTypes[cls], name, op,
                                                     data, tell, grant)
                                 IN  /\ pos' = r.pos
                                     /\ IF r.err # NoErr
                                        THEN /\ Raise(r.err)
                                             /\ UNCHANGED <<elements, cur>>
                                        ELSE IF DolDocTypes[cls] = "DolDocElementText"
                                        THEN /\ cur' = r.elm
                                             /\ pc' = "text"
                                             /\ UNCHANGED <<elements, chunks,
                                                            err, ret>>
                                        ELSE /\ Collect(r.elm)
                                             /\ cur' = cur
    /\ UNCHANGED <<input, handle, hpos, buffer, text, hdr, data>>

\* one pass of DolDocElementText.fromStream's loop, and on break its return
TextReadByte ==
    /\ pc = "text"
    /\ LET v == Read(data, pos, 1)
           a == TextAccumulate(cur.bytes, v)
       IN  /\ pos' = pos + Len(v)
           /\ IF a.brk
              THEN /\ Collect([cur EXCEPT !.bytes = a.text])
                   /\ cur' = NoElement
              ELSE /\ cur' = [cur EXCEPT !.bytes = a.text]
                   /\ UNCHANGED <<pc, elements, chunks, err, ret>>
    /\ UNCHANGED <<input, handle, hpos, buffer, text, hdr, data, estart, etype>>

Next ==
    \/ ReadPreambleByte
    \/ ReadChunkHeader
    \/ DecodeElement
    \/ TextReadByte

Spec == Init /\ [][Next]_vars

\* the interpreter runs the next statement whenever there is one
FairSpec == Spec /\ WF_vars(Next)

\* ------------------------------------------------------------ properties
Decoding == pc \in {"decode", "text"}

\* an opcode was read by the last pass of fromStream's loop
OpcodeRead == estart < Len(data)

\* the chunks of the input whose payload and declared size are those being
\* decoded, and which are well formed
WellFormedHere == { c \in { input.chunks[k] : k \in 1..Len(input.chunks) } :
                      WellFormed(c) /\ Payload(c) = data /\ c.size = hdr.size }

\* the opcodes a well-formed chunk encodes, End included
OpsOf(c) == [j \in 1..(Len(c.elems) + 1) |->
                IF j <= Len(c.elems) THEN c.elems[j].op ELSE 0]

\* the classes with a payload of fixed size, and that size in bytes
FixedClasses == StructClasses \cup {"DolDocElementColor", "DolDocElementDitherColor"}
FixedSize(class) ==
    IF class = "DolDocElementColor" THEN 1
    ELSE IF class = "DolDocElementDitherColor" THEN 2
    ELSE 4 * IntFields(class)

ClassOf(op) == DolDocTypes[DolDocMapping[op + 1][2]]

\* C1: fromStream halts on every payload: once decoding a chunk has begun it
\* returns or raises.
C1_FromStreamHalts == Decoding ~> (pc \in {"header", "done", "error"})

\* C2: an opcode at or past the table's length fails with the DolDocError
\* "Don't know what type", naming opcode and position, and appends nothing.
C2_UnknownOpcodeIsDolDocError ==
    etype >= Len(DolDocMapping) =>
        /\ pc = "error"
        /\ err = [type |-> "DolDocError",
                  msg |-> "Don't know what type {} at {} is!",
                  args |-> <<etype, estart + 1>>]
        /\ \A j \in 1..Len(elements) : elements[j].id # etype

\* C3: a header read with fewer than 16 bytes left (0 to 15) ends the loop
\* normally and load returns the Document built so far.
C3_ShortHeaderEndsNormally ==
    [][(pc = "header" /\ Len(handle) - hpos < sDolDocEntrySize) =>
          (pc' = "done" /\ chunks' = chunks
           /\ ret' = << [text |-> text, chunks |-> chunks] >>)]_vars

\* C4: a fixed-size kind with fewer payload bytes left than it requires
\* fails with a DolDocError, and no element of it is appended.
C4_TruncatedFixedIsDolDocError ==
    (/\ pc = "error"
     /\ OpcodeRead
     /\ etype + 1 \in DOMAIN DolDocMapping
     /\ DolDocMapping[etype + 1][2] \in DOMAIN DolDocTypes
     /\ ClassOf(etype) \in FixedClasses
     /\ Len(data) - (estart + 1) < FixedSize(ClassOf(etype)))
    => err.type = "DolDocError"

\* C5: every element list fromStream returned is non-empty, ends with the End
\* element (opcode 0), and holds no other End; while the loop runs the
\* elements collected so far hold no End.
C5_EndIsLastAndOnly ==
    /\ \A k \in 1..Len(chunks) :
          LET es == chunks[k].elements IN
          /\ Len(es) >= 1
          /\ es[Len(es)].id = 0 /\ es[Len(es)].name = "End"
          /\ \A j \in 1..(Len(es) - 1) : es[j].id # 0 /\ es[j].name # "End"
    /\ Decoding =>
          \A j \in 1..Len(elements) :
              elements[j].id # 0 /\ elements[j].name # "End"

C5_Witness ==
    /\ pc = "header"
    /\ Len(chunks) >= 1
    /\ Len(chunks[Len(chunks)].elements) >= 3
    /\ pos < Len(data)

\* C6: Shift (opcode 7) is the one table opcode without a registered decoder:
\* reading it raises the DolDocError "Don't know how to decode" with the cursor
\* just behind the opcode and nothing appended; no other table opcode does.
C6_ShiftOnlyUnregistered ==
    /\ \A e \in 0..(Len(DolDocMapping) - 1) :
          (DolDocMapping[e + 1][2] \notin DOMAIN DolDocTypes) <=> (e = 7)
    /\ etype = 7 =>
          /\ pc = "error"
          /\ err = [type |-> "DolDocError",
                    msg |-> "Don't know how to decode {} at {}!",
                    args |-> <<"Shift", estart + 1>>]
          /\ pos = estart + 1
          /\ \A j \in 1..Len(elements) : elements[j].id # 7
    /\ err.msg = "Don't know how to decode {} at {}!" => etype = 7

C6_Witness ==
    /\ etype = 7
    /\ pc = "error"
    /\ pos + 8 < Len(data)
    /\ Len(elements) >= 1

\* C7: an error raised while chunk k is decoded ends load: the chunk is not
\* appended, nothing is returned, the file cursor stays, and no step follows.
C7_DecodeErrorIsFatal ==
    [][/\ pc # "error"
       /\ (Decoding /\ err' # NoErr) =>
             /\ pc' = "error"
             /\ chunks' = chunks
             /\ ret' = <<>>
             /\ hpos' = hpos]_vars

C7_Witness ==
    /\ pc = "error"
    /\ err.type = "DolDocError"
    /\ Len(chunks) = 1
    /\ data # <<>>
    /\ Len(handle) - hpos >= sDolDocEntrySize

\* the list lengths a counted record asks for
CountsOf(e) ==
    IF e.op = 24 THEN UnpackInts(SubSeq(e.body, 1, 8), 2)
    ELSE <<I32(SubSeq(e.body, 1, 4))>>

\* the decoder returned the kinds c encodes, in order, cursor at the size
DecodedAs(c, elms, p) ==
    /\ p = c.size
    /\ Len(elms) = Len(c.elems) + 1
    /\ \A j \in 1..Len(elms) :
          /\ elms[j].id = OpsOf(c)[j]
          /\ elms[j].name = DolDocMapping[OpsOf(c)[j] + 1][1]

C9_TextUpToTerminator ==
    /\ pc = "text" =>
          /\ cur.bytes = SubSeq(data, estart + 10, pos)
          /\ \A j \in (estart + 10)..pos : data[j] # 0
    /\ (pc = "decode" /\ elements # <<>>
        /\ elements[Len(elements)].class = "DolDocElementText") =>
          LET t == elements[Len(elements)] IN
          /\ t.id \in {27, 28, 29}
          /\ t.vals = UnpackInts(SubSeq(data, estart + 2, estart + 9), 2)
          /\ pos >= estart + 10
          /\ data[pos] = 0
          /\ \A j \in (estart + 10)..(pos - 1) : data[j] # 0
          /\ t.bytes = SubSeq(data, estart + 10, pos - 1)

C9_Witness ==
    /\ pc = "decode"
    /\ elements # <<>>
    /\ elements[Len(elements)].class = "DolDocElementText"
    /\ elements[Len(elements)].bytes = <<72, 105>>
    /\ pos < Len(data)

\* C10: the payload cursor never passes the declared size, the decoder never
\* moves the file cursor, and after a header the file cursor stands just
\* behind the size declared bytes (or at the end of a shorter file), where the
\* next header is read.
C10_CursorWithinSize ==
    [][/\ pos' <= Len(data') /\ Len(data') <= hdr'.size
       /\ Decoding => hpos' = hpos
       /\ (pc = "header" /\ pc' = "decode") =>
             /\ hpos' = Min(hpos + sDolDocEntrySize + hdr'.size, Len(handle))
             /\ data' = SubSeq(handle, hpos + sDolDocEntrySize + 1, hpos')]_vars

C10_Witness ==
    /\ pc = "header"
    /\ Len(chunks) = 1
    /\ pos < hdr.size
    /\ Len(handle) - hpos >= sDolDocEntrySize
====
